---- MODULE Spec2Model ----
(***************************************************************************)
(* Model of src/src/App.tsx: the App component of the radio-station voice  *)
(* generator.  The component's React state (jsonFile, introFile,           *)
(* outroFile, transcript, processingStep, finalAudioUrl), its handlers     *)
(* (handleFileUpload, parseJsonFile, processAudio) and the pure function   *)
(* getTranscriptText.                                                      *)
(***************************************************************************)
EXTENDS Naturals, Sequences, FiniteSets

\* jsonFile, introFile, outroFile, transcript, processingStep and
\* finalAudioUrl are the component's React state.
\* reads: per transcript file, the parseJsonFile calls suspended at
\*        `await file.text()`.
\* runs:  the processAudio invocations suspended at a timer, oldest first.
\* extracted: the outcome of getTranscriptText for the preview.
\* History variables, read by the properties only:
\* validPicked: processingStep is 'error' and, since the parse failure that
\*        set it, the user has selected a transcript file that parses.
\* quiet: a run is in flight and no user action has happened since the
\*        latest invocation of processAudio.
\* watched: the position in runs of one invocation that is being followed
\*        to its end, or 0.
\* alertOpen: the blocking alert() of processAudio is on screen.
VARIABLES jsonFile, introFile, outroFile, transcript, processingStep,
          finalAudioUrl, reads, runs, extracted, validPicked, quiet,
          watched, alertOpen

vars == <<jsonFile, introFile, outroFile, transcript, processingStep,
          finalAudioUrl, reads, runs, extracted, validPicked, quiet,
          watched, alertOpen>>

(***************************************************************************)
(* Bounds of the model.                                                    *)
(***************************************************************************)
MaxSegs == 2

\* At most this many asynchronous operations (file reads of parseJsonFile,
\* processAudio invocations) are in flight at once.
MaxAsync == 2

(***************************************************************************)
(* JavaScript values, as far as getTranscriptText looks into them.  Every  *)
(* level is a record of one shape, so that any two values compare.         *)
(* A string is a sequence of one-character strings.                        *)
(***************************************************************************)
Prim(k, s, n) == [kind |-> k, str |-> s, num |-> n]

Undefined == Prim("undefined", <<>>, 0)

Null == Prim("null", <<>>, 0)

Str(s) == Prim("string", s, 0)

Num(n) == Prim("number", <<>>, n)

\* The values a `text` field is drawn from: absent, null, strings (the
\* empty one included) and numbers (zero included).
Texts == {Undefined, Null, Str(<<>>), Str(<<"A">>), Str(<<"B">>), Num(0), Num(7)}

\* An element of a `segments` array: null, a number, or an object with an
\* optional `text` field.
Elem(k, t) == [kind |-> k, text |-> t]

ElemNull == Elem("null", Undefined)

ElemNum == Elem("number", Undefined)

ElemObj(t) == Elem("object", t)

Elems == {ElemNull, ElemNum} \cup {ElemObj(t) : t \in Texts \ {Num(0)}}

\* The value of a `segments` field.
Segs(k, items) == [kind |-> k, items |-> items]

SegsUndefined == Segs("undefined", <<>>)

SegsArray(items) == Segs("array", items)

SeqsUpTo(S, n) == UNION {[1..m -> S] : m \in 0..n}

SegsValues ==
    {SegsUndefined, Segs("null", <<>>), Segs("number", <<>>), Segs("string", <<>>),
     Segs("object", <<>>)}
    \cup {SegsArray(items) : items \in SeqsUpTo(Elems, MaxSegs)}

\* A value JSON.parse can produce (or the initial null of the state).
Doc(k, t, s) == [kind |-> k, text |-> t, segments |-> s]

DocNull == Doc("null", Undefined, SegsUndefined)

DocObj(t, s) == Doc("object", t, s)

DocPrim(k) == Doc(k, Undefined, SegsUndefined)

Docs ==
    {DocNull, DocPrim("number"), DocPrim("zero"), DocPrim("string"),
     DocPrim("emptystring"), DocPrim("array"), DocPrim("true"), DocPrim("false")}
    \cup {DocObj(t, s) : t \in Texts, s \in SegsValues}

(***************************************************************************)
(* JavaScript semantics used by getTranscriptText.                         *)
(***************************************************************************)
\* ToBoolean of the transcript value (`!transcript`).
TruthyDoc(doc) == doc.kind \notin {"null", "zero", "emptystring", "false"}

\* ToBoolean of a `text` value (`if (transcript.text)`).
TruthyPrim(v) ==
    CASE v.kind \in {"undefined", "null"} -> FALSE
      [] v.kind = "string" -> v.str # <<>>
      [] v.kind = "number" -> v.num # 0
      [] OTHER -> TRUE

\* ToBoolean of a `segments` value (`if (transcript.segments)`): a number
\* or string here stands for a non-zero number or non-empty string.
TruthySegs(s) == s.kind \notin {"undefined", "null"}

\* Property lookup `transcript.text`: undefined on anything but an object
\* that carries the field.
GetText(doc) == IF doc.kind = "object" THEN doc.text ELSE Undefined

\* Property lookup `transcript.segments`.
GetSegments(doc) == IF doc.kind = "object" THEN doc.segments ELSE SegsUndefined

Digit(d) == <<"0", "1", "2", "3", "4", "5", "6", "7", "8", "9">>[d + 1]

RECURSIVE NumToString(_)
NumToString(n) ==
    IF n < 10 THEN <<Digit(n)>> ELSE NumToString(n \div 10) \o <<Digit(n % 10)>>

\* What Array.prototype.join appends for one element: nothing for
\* undefined and null, ToString of it otherwise.
JoinPiece(v) ==
    CASE v.kind \in {"undefined", "null"} -> <<>>
      [] v.kind = "string" -> v.str
      [] v.kind = "number" -> NumToString(v.num)
      [] OTHER -> <<"?">>

\* join with the separator after every element.
joinTrailing(arr, sep) ==
    LET step[k \in 0..Len(arr)] ==
            IF k = 0 THEN <<>> ELSE step[k - 1] \o JoinPiece(arr[k]) \o sep
    IN  step[Len(arr)]

\* Array.prototype.join: the separator goes before every element but the
\* first.
join(arr, sep) ==
    LET step[k \in 0..Len(arr)] ==
            IF k = 0 THEN <<>>
            ELSE (IF k > 1 THEN step[k - 1] \o sep ELSE step[k - 1])
                 \o JoinPiece(arr[k])
    IN  step[Len(arr)]

\* The callback `segment => segment.text`: reading a property of null
\* throws; of a number it is undefined.
SegmentThrows(e) == e.kind = "null"

SegmentText(e) == IF e.kind = "object" THEN e.text ELSE Undefined

\* The outcome of a call: a returned value or a thrown TypeError.
Return(v) == [called |-> TRUE, threw |-> FALSE, val |-> v]

Throw == [called |-> TRUE, threw |-> TRUE, val |-> Undefined]

NotCalled == [called |-> FALSE, threw |-> FALSE, val |-> Undefined]

\* getTranscriptText without its last `return ''`: falling off the end
\* returns undefined.
getTranscriptText_noFallback(doc) ==
    IF ~TruthyDoc(doc) THEN Return(Str(<<>>))
    ELSE IF TruthyPrim(GetText(doc)) THEN Return(GetText(doc))
    ELSE IF TruthySegs(GetSegments(doc)) THEN
        LET segments == GetSegments(doc) IN
        IF segments.kind # "array" THEN Throw
        ELSE IF \E i \in 1..Len(segments.items) : SegmentThrows(segments.items[i])
             THEN Throw
        ELSE Return(Str(join([i \in 1..Len(segments.items) |->
                                  SegmentText(segments.items[i])], <<" ">>)))
    ELSE Return(Undefined)

getTranscriptText(doc) ==
    IF ~TruthyDoc(doc) THEN Return(Str(<<>>))
    ELSE IF TruthyPrim(GetText(doc)) THEN Return(GetText(doc))
    ELSE IF TruthySegs(GetSegments(doc)) THEN
        LET segments == GetSegments(doc) IN
        IF segments.kind # "array" THEN Throw
        ELSE IF \E i \in 1..Len(segments.items) : SegmentThrows(segments.items[i])
             THEN Throw
        ELSE Return(Str(join([i \in 1..Len(segments.items) |->
                                  SegmentText(segments.items[i])], <<" ">>)))
    ELSE Return(Str(<<>>))

(***************************************************************************)
(* Files the user can pick, their sizes and their contents.                *)
(***************************************************************************)
JsonFiles == {"text.json", "segments.json", "broken.json"}

IntroFiles == {"intro.mp3", "other.mp3"}

OutroFiles == {"outro.mp3"}

\* file.text(): the content of a transcript file.
FileText(f) ==
    CASE f = "text.json" -> "{\"text\":\"A\"}"
      [] f = "segments.json" -> "{\"segments\":[{\"text\":\"A\"},{\"text\":\"B\"}]}"
      [] OTHER -> "{\"text\":"

\* JSON.parse on these contents: the value, or a SyntaxError.
JSONParse(text) ==
    CASE text = "{\"text\":\"A\"}" ->
            [ok |-> TRUE, value |-> DocObj(Str(<<"A">>), SegsUndefined)]
      [] text = "{\"segments\":[{\"text\":\"A\"},{\"text\":\"B\"}]}" ->
            [ok |-> TRUE,
             value |-> DocObj(Undefined,
                              SegsArray(<<ElemObj(Str(<<"A">>)), ElemObj(Str(<<"B">>))>>))]
      [] OTHER -> [ok |-> FALSE, value |-> DocNull]

Parseable(f) == JSONParse(FileText(f)).ok

\* file.size, in bytes.
FileSize(f) ==
    CASE f = "text.json" -> 12
      [] f = "segments.json" -> 40
      [] f = "broken.json" -> 8
      [] f = "intro.mp3" -> 1048576
      [] f = "other.mp3" -> 1536
      [] OTHER -> 2621440

RECURSIVE Pow(_, _)
Pow(b, e) == IF e = 0 THEN 1 ELSE b * Pow(b, e - 1)

\* Math.floor(Math.log(bytes) / Math.log(k)) for bytes >= 1.
RECURSIVE FloorLog(_, _)
FloorLog(bytes, k) == IF bytes < k THEN 0 ELSE 1 + FloorLog(bytes \div k, k)

\* formatFileSize(bytes): the number, kept in hundredths as toFixed(2)
\* rounds it, and the unit that follows it.
formatFileSize(bytes) ==
    IF bytes = 0 THEN [hundredths |-> 0, unit |-> "Bytes"]
    ELSE LET k == 1024
             sizes == <<"Bytes", "KB", "MB", "GB">>
             i == FloorLog(bytes, k)
         IN  [hundredths |-> (bytes * 200 + Pow(k, i)) \div (2 * Pow(k, i)),
              unit |-> IF i + 1 <= Len(sizes) THEN sizes[i + 1] ELSE "undefined"]

(***************************************************************************)
(* The component's state.                                                  *)
(***************************************************************************)
\* An UploadedFile, or null.  URL.createObjectURL(file) is modelled by the
\* file the URL refers to.
NoUrl == [blob |-> "none"]

createObjectURL(f) == [blob |-> f]

NoFile == [file |-> "none", name |-> "none", size |-> formatFileSize(0), url |-> NoUrl]

\* An object URL created for every type of file, the transcript included.
UploadedFile_urlForAll(f, type) ==
    [file |-> f,
     name |-> f,
     size |-> formatFileSize(FileSize(f)),
     url |-> createObjectURL(f)]

UploadedFile(f, type) ==
    [file |-> f,
     name |-> f,
     size |-> formatFileSize(FileSize(f)),
     url |-> IF type # "json" THEN createObjectURL(f) ELSE NoUrl]

ProcessingStep == {"idle", "parsing", "generating", "combining", "complete", "error"}

\* The simulated stage delays of processAudio, in milliseconds.
ParseDelay == 1000

GenerateDelay == 2000

CombineDelay == 1500

RECURSIVE GCD(_, _)
GCD(a, b) == IF b = 0 THEN a ELSE GCD(b, a % b)

\* Time advances in steps of the largest unit all three delays are
\* multiples of.
TimeUnit == GCD(ParseDelay, GCD(GenerateDelay, CombineDelay))

\* The stage that follows a stage in the pipeline's order.
NextStage(step) ==
    CASE step = "parsing" -> "generating"
      [] step = "generating" -> "combining"
      [] step = "combining" -> "complete"
      [] OTHER -> "none"

\* One processAudio invocation suspended at an await: the stage it has set,
\* the time left on its timer and the introFile its closure captured.
Run(stage, timer, intro) == [stage |-> stage, timer |-> timer, introFile |-> intro]

RemoveAt(seq, i) == SubSeq(seq, 1, i - 1) \o SubSeq(seq, i + 1, Len(seq))

TotalReads ==
    LET sum[S \in SUBSET JsonFiles] ==
            IF S = {} THEN 0
            ELSE LET f == CHOOSE x \in S : TRUE IN reads[f] + sum[S \ {f}]
    IN  sum[JsonFiles]

InFlight == TotalReads + Len(runs)

Init ==
    /\ jsonFile = NoFile
    /\ introFile = NoFile
    /\ outroFile = NoFile
    /\ transcript = DocNull
    /\ processingStep = "idle"
    /\ finalAudioUrl = NoUrl
    /\ reads = [f \in JsonFiles |-> 0]
    /\ runs = <<>>
    /\ extracted = NotCalled
    /\ validPicked = FALSE
    /\ quiet = FALSE
    /\ watched = 0
    /\ alertOpen = FALSE

(***************************************************************************)
(* handleFileUpload(file, type, setter): the slot is replaced; for the     *)
(* transcript slot parseJsonFile starts and suspends at `await             *)
(* file.text()`.                                                           *)
(***************************************************************************)
\* A file selection that also drops the invocations in flight.
handleFileUpload_cancelsRuns(f, type) ==
    /\ type = "json" => InFlight < MaxAsync
    /\ jsonFile' = IF type = "json" THEN UploadedFile(f, type) ELSE jsonFile
    /\ introFile' = IF type = "intro" THEN UploadedFile(f, type) ELSE introFile
    /\ outroFile' = IF type = "outro" THEN UploadedFile(f, type) ELSE outroFile
    /\ reads' = IF type = "json" THEN [reads EXCEPT ![f] = @ + 1] ELSE reads
    /\ validPicked' = (processingStep = "error"
                        /\ (validPicked \/ (type = "json" /\ Parseable(f))))
    /\ quiet' = FALSE
    /\ runs' = <<>>
    /\ watched' = 0
    /\ UNCHANGED <<transcript, processingStep, finalAudioUrl, extracted, alertOpen>>

\* A file selection that also puts the step display back to 'idle'.
handleFileUpload_resetsStep(f, type) ==
    /\ type = "json" => InFlight < MaxAsync
    /\ jsonFile' = IF type = "json" THEN UploadedFile(f, type) ELSE jsonFile
    /\ introFile' = IF type = "intro" THEN UploadedFile(f, type) ELSE introFile
    /\ outroFile' = IF type = "outro" THEN UploadedFile(f, type) ELSE outroFile
    /\ reads' = IF type = "json" THEN [reads EXCEPT ![f] = @ + 1] ELSE reads
    /\ validPicked' = (processingStep = "error"
                        /\ (validPicked \/ (type = "json" /\ Parseable(f))))
    /\ quiet' = FALSE
    /\ processingStep' = "idle"
    /\ UNCHANGED <<transcript, finalAudioUrl, runs, extracted, watched, alertOpen>>

handleFileUpload(f, type) ==
    /\ type = "json" => InFlight < MaxAsync
    /\ jsonFile' = IF type = "json" THEN UploadedFile(f, type) ELSE jsonFile
    /\ introFile' = IF type = "intro" THEN UploadedFile(f, type) ELSE introFile
    /\ outroFile' = IF type = "outro" THEN UploadedFile(f, type) ELSE outroFile
    /\ reads' = IF type = "json" THEN [reads EXCEPT ![f] = @ + 1] ELSE reads
    /\ validPicked' = (processingStep = "error"
                        /\ (validPicked \/ (type = "json" /\ Parseable(f))))
    /\ quiet' = FALSE
    /\ UNCHANGED <<transcript, processingStep, finalAudioUrl, runs, extracted,
                   watched, alertOpen>>

(***************************************************************************)
(* parseJsonFile(file), from the point where file.text() resolves.         *)
(***************************************************************************)
\* parseJsonFile whose catch block substitutes an empty document and
\* reports nothing.
parseJsonFile_silentDefault(f) ==
    /\ reads[f] > 0
    /\ reads' = [reads EXCEPT ![f] = @ - 1]
    /\ LET data == JSONParse(FileText(f)) IN
       IF data.ok
       THEN /\ transcript' = data.value
            /\ UNCHANGED <<processingStep, validPicked>>
       ELSE /\ transcript' = DocObj(Undefined, SegsUndefined)
            /\ UNCHANGED <<processingStep, validPicked>>
    /\ UNCHANGED <<jsonFile, introFile, outroFile, finalAudioUrl, runs, extracted,
                   quiet, watched, alertOpen>>

parseJsonFile(f) ==
    /\ reads[f] > 0
    /\ reads' = [reads EXCEPT ![f] = @ - 1]
    /\ LET data == JSONParse(FileText(f)) IN
       IF data.ok
       THEN /\ transcript' = data.value
            /\ UNCHANGED <<processingStep, validPicked>>
       ELSE /\ processingStep' = "error"
            /\ validPicked' = FALSE
            /\ UNCHANGED transcript
    /\ UNCHANGED <<jsonFile, introFile, outroFile, finalAudioUrl, runs, extracted,
                   quiet, watched, alertOpen>>

(***************************************************************************)
(* processAudio(), up to its first await; the closure holds the slots of   *)
(* the render the click happened in.                                       *)
(***************************************************************************)
\* processAudio without its check of the three slots.
processAudio_noGuard ==
    /\ InFlight < MaxAsync
    /\ processingStep' = "parsing"
    /\ runs' = Append(runs, Run("parsing", ParseDelay, introFile))
    /\ validPicked' = FALSE
    /\ quiet' = TRUE
    /\ UNCHANGED <<jsonFile, introFile, outroFile, transcript, finalAudioUrl,
                   reads, extracted, watched, alertOpen>>

processAudio ==
    IF jsonFile = NoFile \/ introFile = NoFile \/ outroFile = NoFile
    THEN /\ alertOpen' = TRUE
         /\ UNCHANGED <<jsonFile, introFile, outroFile, transcript, processingStep,
                        finalAudioUrl, reads, runs, extracted, validPicked, quiet,
                        watched>>
    ELSE /\ InFlight < MaxAsync
         /\ processingStep' = "parsing"
         /\ runs' = Append(runs, Run("parsing", ParseDelay, introFile))
         /\ validPicked' = FALSE
         /\ quiet' = TRUE
         /\ UNCHANGED <<jsonFile, introFile, outroFile, transcript, finalAudioUrl,
                        reads, extracted, watched, alertOpen>>

\* The generate button's `disabled` attribute.
GenerateDisabled ==
    \/ jsonFile = NoFile
    \/ introFile = NoFile
    \/ outroFile = NoFile
    \/ processingStep = "generating"

ClickGenerate ==
    /\ ~GenerateDisabled
    /\ processAudio

(***************************************************************************)
(* processAudio() resumed by the timer of run i.  Timers of the same stage *)
(* fire in the order they were set.                                        *)
(***************************************************************************)
\* Where the followed invocation is in runs after the timer of run i has
\* resumed it: gone if it was run i at its last stage, one place down if an
\* older run ended.
WatchedAfter(i) ==
    IF runs[i].stage # "combining" THEN watched
    ELSE IF watched = i THEN 0
    ELSE IF watched > i THEN watched - 1
    ELSE watched

TimerDue(i) ==
    /\ runs[i].timer = 0
    /\ \A j \in 1..(i - 1) : ~(runs[j].timer = 0 /\ runs[j].stage = runs[i].stage)

\* processAudio reading the intro slot of the current render, not of its
\* closure, when it builds the final URL.
ResumeProcessAudio_currentIntro(i) ==
    /\ i \in 1..Len(runs)
    /\ TimerDue(i)
    /\ CASE runs[i].stage = "parsing" ->
              /\ processingStep' = "generating"
              /\ runs' = [runs EXCEPT ![i].stage = "generating", ![i].timer = GenerateDelay]
              /\ UNCHANGED finalAudioUrl
         [] runs[i].stage = "generating" ->
              /\ processingStep' = "combining"
              /\ runs' = [runs EXCEPT ![i].stage = "combining", ![i].timer = CombineDelay]
              /\ UNCHANGED finalAudioUrl
         [] OTHER ->
              /\ finalAudioUrl' = createObjectURL(introFile.file)
              /\ processingStep' = "complete"
              /\ runs' = RemoveAt(runs, i)
    /\ validPicked' = FALSE
    /\ quiet' = (quiet /\ runs' # <<>>)
    /\ watched' = WatchedAfter(i)
    /\ UNCHANGED <<jsonFile, introFile, outroFile, transcript, reads, extracted,
                   alertOpen>>

\* processAudio whose last stage sets 'complete' without setFinalAudioUrl.
ResumeProcessAudio_noFinalUrl(i) ==
    /\ i \in 1..Len(runs)
    /\ TimerDue(i)
    /\ CASE runs[i].stage = "parsing" ->
              /\ processingStep' = "generating"
              /\ runs' = [runs EXCEPT ![i].stage = "generating", ![i].timer = GenerateDelay]
         [] runs[i].stage = "generating" ->
              /\ processingStep' = "combining"
              /\ runs' = [runs EXCEPT ![i].stage = "combining", ![i].timer = CombineDelay]
         [] OTHER ->
              /\ processingStep' = "complete"
              /\ runs' = RemoveAt(runs, i)
    /\ validPicked' = FALSE
    /\ quiet' = (quiet /\ runs' # <<>>)
    /\ watched' = WatchedAfter(i)
    /\ UNCHANGED <<jsonFile, introFile, outroFile, transcript, finalAudioUrl, reads,
                   extracted, alertOpen>>

\* processAudio whose last stage throws, so that its catch block runs.
ResumeProcessAudio_catch(i) ==
    /\ i \in 1..Len(runs)
    /\ TimerDue(i)
    /\ CASE runs[i].stage = "parsing" ->
              /\ processingStep' = "generating"
              /\ runs' = [runs EXCEPT ![i].stage = "generating", ![i].timer = GenerateDelay]
         [] runs[i].stage = "generating" ->
              /\ processingStep' = "combining"
              /\ runs' = [runs EXCEPT ![i].stage = "combining", ![i].timer = CombineDelay]
         [] OTHER ->
              /\ processingStep' = "error"
              /\ runs' = RemoveAt(runs, i)
    /\ validPicked' = FALSE
    /\ quiet' = (quiet /\ runs' # <<>>)
    /\ watched' = WatchedAfter(i)
    /\ UNCHANGED <<jsonFile, introFile, outroFile, transcript, finalAudioUrl, reads,
                   extracted, alertOpen>>

ResumeProcessAudio(i) ==
    /\ i \in 1..Len(runs)
    /\ TimerDue(i)
    /\ CASE runs[i].stage = "parsing" ->
              /\ processingStep' = "generating"
              /\ runs' = [runs EXCEPT ![i].stage = "generating", ![i].timer = GenerateDelay]
              /\ UNCHANGED finalAudioUrl
         [] runs[i].stage = "generating" ->
              /\ processingStep' = "combining"
              /\ runs' = [runs EXCEPT ![i].stage = "combining", ![i].timer = CombineDelay]
              /\ UNCHANGED finalAudioUrl
         [] OTHER ->
              /\ finalAudioUrl' = createObjectURL(runs[i].introFile.file)
              /\ processingStep' = "complete"
              /\ runs' = RemoveAt(runs, i)
    /\ validPicked' = FALSE
    /\ quiet' = (quiet /\ runs' # <<>>)
    /\ watched' = WatchedAfter(i)
    /\ UNCHANGED <<jsonFile, introFile, outroFile, transcript, reads, extracted,
                   alertOpen>>

\* Time passes: no timer that is due is left waiting.
Tick ==
    /\ runs # <<>>
    /\ \A i \in 1..Len(runs) : runs[i].timer > 0
    /\ runs' = [i \in 1..Len(runs) |-> [runs[i] EXCEPT !.timer = @ - TimeUnit]]
    /\ UNCHANGED <<jsonFile, introFile, outroFile, transcript, processingStep,
                   finalAudioUrl, reads, extracted, validPicked, quiet, watched,
                   alertOpen>>

Next ==
    \/ \E f \in JsonFiles : handleFileUpload(f, "json")
    \/ \E f \in IntroFiles : handleFileUpload(f, "intro")
    \/ \E f \in OutroFiles : handleFileUpload(f, "outro")
    \/ \E f \in JsonFiles : parseJsonFile(f)
    \/ ClickGenerate
    \/ \E i \in 1..MaxAsync : ResumeProcessAudio(i)
    \/ Tick

Spec == Init /\ [][Next]_vars

(***************************************************************************)
(* Following one invocation to its end.  Watch picks any invocation that   *)
(* has just started.  The browser fires the timers that are due and time   *)
(* does not stop: the only fairness assumed is that of TimePasses.         *)
(***************************************************************************)
Watch(i) ==
    /\ watched = 0
    /\ i \in 1..Len(runs)
    /\ runs[i].stage = "parsing"
    /\ runs[i].timer = ParseDelay
    /\ watched' = i
    /\ UNCHANGED <<jsonFile, introFile, outroFile, transcript, processingStep,
                   finalAudioUrl, reads, runs, extracted, validPicked, quiet,
                   alertOpen>>

NextLive ==
    \/ Next
    \/ \E i \in 1..MaxAsync : Watch(i)

\* The event loop at work: a timer that is due fires, or else time passes.
TimePasses ==
    \/ Tick
    \/ \E i \in 1..MaxAsync : ResumeProcessAudio(i)

SpecLive ==
    /\ Init
    /\ [][NextLive]_vars
    /\ WF_vars(TimePasses)

(***************************************************************************)
(* processAudio called while a slot is empty.  The generate button is      *)
(* disabled in exactly these states, so the call does not come from a      *)
(* click: this specification adds the call itself, to exercise the check   *)
(* at the top of processAudio.  alert() blocks the page until dismissed.   *)
(***************************************************************************)
SlotMissing == jsonFile = NoFile \/ introFile = NoFile \/ outroFile = NoFile

InvokeProcessAudio == SlotMissing /\ processAudio

DismissAlert ==
    /\ alertOpen
    /\ alertOpen' = FALSE
    /\ UNCHANGED <<jsonFile, introFile, outroFile, transcript, processingStep,
                   finalAudioUrl, reads, runs, extracted, validPicked, quiet,
                   watched>>

NextInvoke ==
    \/ ~alertOpen /\ Next
    \/ ~alertOpen /\ InvokeProcessAudio
    \/ DismissAlert

SpecInvoke == Init /\ [][NextInvoke]_vars

(***************************************************************************)
(* The transcript preview: getTranscriptText applied to a transcript.      *)
(***************************************************************************)
InitText ==
    /\ jsonFile = NoFile
    /\ introFile = NoFile
    /\ outroFile = NoFile
    /\ transcript \in Docs
    /\ processingStep = "idle"
    /\ finalAudioUrl = NoUrl
    /\ reads = [f \in JsonFiles |-> 0]
    /\ runs = <<>>
    /\ extracted = NotCalled
    /\ validPicked = FALSE
    /\ quiet = FALSE
    /\ watched = 0
    /\ alertOpen = FALSE

Preview ==
    /\ ~extracted.called
    /\ extracted' = getTranscriptText(transcript)
    /\ UNCHANGED <<jsonFile, introFile, outroFile, transcript, processingStep,
                   finalAudioUrl, reads, runs, validPicked, quiet, watched,
                   alertOpen>>

NextText == Preview

SpecText == InitText /\ [][NextText]_vars

(***************************************************************************)
(* Claims about getTranscriptText, checked under SpecText.                 *)
(***************************************************************************)
\* Shape A: an object whose `text` is a string.
ShapeA(doc) == doc.kind = "object" /\ doc.text.kind = "string"

\* Shape B: an object whose `segments` is a sequence of objects.
ShapeB(doc) ==
    /\ doc.kind = "object"
    /\ doc.segments.kind = "array"
    /\ \A i \in 1..Len(doc.segments.items) : doc.segments.items[i].kind = "object"

\* C1: whenever the transcript's `text` field is present (non-null), the
\* empty string included and whatever `segments` holds, the extracted text
\* is exactly the value of `text`.
C1_TextPrecedence ==
    (extracted.called /\ transcript.kind = "object"
        /\ transcript.text.kind \notin {"undefined", "null"})
    => extracted = Return(transcript.text)

\* The text a segment contributes: its `text`, or the empty string when it
\* has none.
Contribution(e) == IF e.text.kind = "string" THEN e.text.str ELSE <<>>

\* t1 + " " + t2 + ... + " " + tn, built from the right.
RECURSIVE Spaced(_)
Spaced(items) ==
    IF items = <<>> THEN <<>>
    ELSE IF Len(items) = 1 THEN Contribution(items[1])
    ELSE Contribution(items[1]) \o <<" ">> \o Spaced(Tail(items))

Count(s, c) == Cardinality({i \in 1..Len(s) : s[i] = c})

\* A document with no `text` field and a `segments` sequence of objects
\* whose `text` is a string or missing.
SegmentsOnly(doc) ==
    /\ ShapeB(doc)
    /\ doc.text.kind = "undefined"
    /\ \A i \in 1..Len(doc.segments.items) :
          doc.segments.items[i].text.kind \in {"string", "undefined"}

\* C2: for a document with no `text` and a `segments` sequence of length
\* n >= 0, the extracted text is the segments' texts in order with exactly
\* one space between neighbours (n-1 separators), a segment without `text`
\* contributing the empty string; extraction does not fail.
C2_SegmentConcatenation ==
    (extracted.called /\ SegmentsOnly(transcript))
    => LET items == transcript.segments.items IN
       /\ ~extracted.threw
       /\ extracted.val = Str(Spaced(items))
       /\ Count(extracted.val.str, " ")
             = IF items = <<>> THEN 0 ELSE Len(items) - 1

\* C2's case: two segments, the second without `text`, extracted as "A ".
C2_Witness ==
    /\ extracted.called
    /\ transcript = DocObj(Undefined,
                           SegsArray(<<ElemObj(Str(<<"A">>)), ElemObj(Undefined)>>))
    /\ extracted.val.str = <<"A", " ">>

\* C3: a parsed value that is neither shape A nor shape B is extracted as
\* the empty string, without failing.
C3_UnrecognizedYieldsEmpty ==
    (extracted.called /\ ~ShapeA(transcript) /\ ~ShapeB(transcript))
    => extracted = Return(Str(<<>>))

EmptyObject == DocObj(Undefined, SegsUndefined)

\* C4: extraction returns the empty string for a null transcript and for
\* the empty object {}.
C4_AbsentOrEmpty ==
    (extracted.called /\ transcript \in {DocNull, EmptyObject})
    => extracted = Return(Str(<<>>))

\* C4's case: the preview of {} has been computed.
C4_Witness == extracted.called /\ transcript = EmptyObject

(***************************************************************************)
(* Claims about the component's state machine, checked under Spec.         *)
(***************************************************************************)
NoReads == \A f \in JsonFiles : reads[f] = 0

\* A step in which a read of file f completes.
ReadCompletes(f) ==
    /\ reads'[f] = reads[f] - 1
    /\ \A g \in JsonFiles \ {f} : reads'[g] = reads[g]

\* A step in which processAudio is invoked and starts a run.
RunStarts == Len(runs') = Len(runs) + 1

\* A step in which run i performs its last stage and ends.
RunEnds(i) == i \in 1..Len(runs) /\ Len(runs') = Len(runs) - 1 /\ runs' = RemoveAt(runs, i)

\* C5: when the read of an unparseable transcript file finishes,
\* processingStep is 'error', the step stores no transcript document, and
\* no new read is started (no retry).
C5_ParseFailure ==
    [][\A f \in JsonFiles :
          (ReadCompletes(f) /\ ~Parseable(f))
          => /\ processingStep' = "error"
             /\ transcript' = transcript
             /\ TotalReads' = TotalReads - 1]_vars

\* C5's case: the broken file was selected, its parse has finished, and
\* the state is 'error' with no transcript held.
C5_Witness ==
    /\ jsonFile.file = "broken.json"
    /\ NoReads
    /\ processingStep = "error"
    /\ transcript = DocNull

\* C6: processingStep leaves 'error' only by a generate invocation made
\* after the user has, since the failure, selected a transcript file that
\* parses successfully.
C6_ErrorTerminal ==
    [][(processingStep = "error" /\ processingStep' # "error")
          => (validPicked /\ RunStarts)]_vars

\* A step that is not a user action and in which the latest invocation is
\* still undisturbed (quiet) or ends.
QuietStep == quiet /\ ~RunStarts /\ (quiet' \/ runs' = <<>>)

\* C7: an invocation with all three files selected sets 'parsing'; with no
\* other user action until it ends, processingStep then only moves to the
\* next stage in order, and when the run ends it is 'complete' and the
\* final audio is the intro file of the slot.
C7_EndToEnd ==
    [][/\ RunStarts => processingStep' = "parsing"
       /\ QuietStep =>
            /\ processingStep' # processingStep
                  => processingStep' = NextStage(processingStep)
            /\ runs' = <<>>
                  => /\ processingStep' = "complete"
                     /\ finalAudioUrl' = createObjectURL(introFile.file)]_vars

\* C8: every change of processingStep is a generate invocation setting
\* 'parsing', a move to the next stage in order, or a move to 'error'.
C8_TransitionContract ==
    [][processingStep' # processingStep
          => \/ processingStep' = "parsing" /\ RunStarts
             \/ processingStep' = NextStage(processingStep)
             \/ processingStep' = "error"]_vars

\* C9: at most one processAudio invocation is in flight.
C9_SingleRun == Len(runs) <= 1

\* C10 as stated: whenever processingStep is 'complete' and a final audio
\* is offered, it refers to the file currently in the intro slot.
C10_FinalIsCurrentIntro ==
    (processingStep = "complete" /\ finalAudioUrl # NoUrl)
    => finalAudioUrl = createObjectURL(introFile.file)

\* C10 as amended: the final audio is set only by a run that ends, which
\* sets it, together with 'complete', to the file the intro slot held when
\* that run was invoked.
C10_FinalIsInvokedIntro ==
    [][/\ RunStarts => runs'[Len(runs')].introFile = introFile
       /\ \A i \in 1..Len(runs) :
             Len(runs') < Len(runs) \/ runs'[i].introFile = runs[i].introFile
       /\ \A i \in 1..Len(runs) :
             RunEnds(i) => /\ processingStep' = "complete"
                           /\ finalAudioUrl' = createObjectURL(runs[i].introFile.file)
       /\ (finalAudioUrl' # finalAudioUrl
             \/ (processingStep' = "complete" /\ processingStep # "complete"))
             => \E i \in 1..Len(runs) : RunEnds(i)]_vars

\* C10's case: a run invoked with intro.mp3 has completed after the user
\* put another file in the intro slot.
C10_Witness ==
    /\ processingStep = "complete"
    /\ finalAudioUrl = createObjectURL("intro.mp3")
    /\ introFile.file = "other.mp3"

(***************************************************************************)
(* Claims about the application, continued.                                *)
(***************************************************************************)
\* C11: an invocation of processAudio while any of the three slots is empty
\* starts no run and leaves processingStep, finalAudioUrl, transcript and
\* the three slots as they were; in particular it does not move to 'error'.
C11_MissingUpload ==
    [][(SlotMissing /\ processAudio) =>
          /\ runs' = runs
          /\ processingStep' = processingStep
          /\ processingStep' = "error" => processingStep = "error"
          /\ finalAudioUrl' = finalAudioUrl
          /\ transcript' = transcript
          /\ jsonFile' = jsonFile
          /\ introFile' = introFile
          /\ outroFile' = outroFile]_vars

\* processAudio has been invoked with the outro slot empty and the other two
\* filled.
C11_Witness ==
    /\ alertOpen
    /\ jsonFile # NoFile
    /\ introFile # NoFile
    /\ outroFile = NoFile

\* The followed invocation is suspended at stage s.
WatchedAt(s) == watched # 0 /\ runs[watched].stage = s

\* C12: no user action aborts a run.  An invocation in flight leaves runs
\* only by its own last step, which sets finalAudioUrl and 'complete'; each
\* stage it moves to is the next one and is shown in processingStep; and,
\* its timers firing, it does reach its end (so, by the first two parts,
\* through 'generating' and 'combining').
C12_RunsComplete ==
    /\ [][watched # 0 /\ watched' = 0 =>
             /\ RunEnds(watched)
             /\ finalAudioUrl' = createObjectURL(runs[watched].introFile.file)
             /\ processingStep' = "complete"]_vars
    /\ [][watched # 0 /\ watched' # 0 =>
             /\ watched' <= Len(runs')
             /\ runs'[watched'].introFile = runs[watched].introFile
             /\ \/ runs'[watched'].stage = runs[watched].stage
                \/ /\ runs[watched].stage = "parsing"
                   /\ runs'[watched'].stage = "generating"
                   /\ processingStep' = "generating"
                \/ /\ runs[watched].stage = "generating"
                   /\ runs'[watched'].stage = "combining"
                   /\ processingStep' = "combining"]_vars
    /\ (watched # 0) ~> (watched = 0)

\* An invocation is followed at its last stage while the user has already
\* selected another intro file and a transcript read is in flight.
C12_Witness ==
    /\ WatchedAt("combining")
    /\ introFile # runs[watched].introFile
    /\ ~NoReads

\* C13: processingStep is not 'error' at start, and every step that moves
\* it to 'error' completes the read of a transcript file that does not
\* parse; audio selections, successful parses, invocations of processAudio
\* and the stages of a run never do.
C13_SingleFailureKind ==
    /\ processingStep # "error"
    /\ [][processingStep' = "error" /\ processingStep # "error" =>
             \E f \in JsonFiles : ReadCompletes(f) /\ ~Parseable(f)]_vars

\* 'error' is showing after a run completed, and the transcript slot
\* already holds another file that parsed.
C13_Witness ==
    /\ processingStep = "error"
    /\ finalAudioUrl # NoUrl
    /\ jsonFile # NoFile
    /\ Parseable(jsonFile.file)
    /\ NoReads

\* The slot holds file f whole: its file, its name, its displayed size, and
\* the given url.
Holds(slot, f, url) ==
    /\ slot.file = f
    /\ slot.name = f
    /\ slot.size = formatFileSize(FileSize(f))
    /\ slot.url = url

\* C14: the transcript slot never carries a url, a filled intro or outro
\* slot always does; and a step that changes one slot puts one selected
\* file into it whole and leaves the other two slots as they were.
C14_AssetSlots ==
    /\ [](/\ jsonFile.url = NoUrl
          /\ introFile # NoFile => introFile.url # NoUrl
          /\ outroFile # NoFile => outroFile.url # NoUrl)
    /\ [][/\ jsonFile' # jsonFile =>
                /\ \E f \in JsonFiles : Holds(jsonFile', f, NoUrl)
                /\ introFile' = introFile
                /\ outroFile' = outroFile
          /\ introFile' # introFile =>
                /\ \E f \in IntroFiles : Holds(introFile', f, createObjectURL(f))
                /\ jsonFile' = jsonFile
                /\ outroFile' = outroFile
          /\ outroFile' # outroFile =>
                /\ \E f \in OutroFiles : Holds(outroFile', f, createObjectURL(f))
                /\ jsonFile' = jsonFile
                /\ introFile' = introFile]_vars

\* The intro slot was filled and then replaced by another file, with the
\* transcript and outro slots filled.
C14_Witness ==
    /\ Holds(introFile, "other.mp3", createObjectURL("other.mp3"))
    /\ finalAudioUrl = createObjectURL("intro.mp3")
    /\ Holds(jsonFile, "segments.json", NoUrl)
    /\ outroFile # NoFile

\* C15: whenever no read is in flight, the transcript held is the document
\* parsed from the file now in the transcript slot, and none is held if that
\* file does not parse or the slot is empty.
C15_TranscriptMatchesFile ==
    NoReads =>
        IF jsonFile # NoFile /\ Parseable(jsonFile.file)
        THEN transcript = JSONParse(FileText(jsonFile.file)).value
        ELSE transcript = DocNull

\* A step in which the timer of a run in flight resumes it: the run moves
\* to its next stage or ends.
RunMoves ==
    \/ Len(runs') < Len(runs)
    \/ /\ Len(runs') = Len(runs)
       /\ \E i \in 1..Len(runs) : runs'[i].stage # runs[i].stage

\* C16: once a failed parse has set 'error' while a run is in flight, the
\* later stages of that run leave processingStep at 'error'.
C16_ErrorNotOverwritten ==
    [][processingStep = "error" /\ RunMoves => processingStep' = "error"]_vars

\* The read of the file now in the transcript slot has finished and the
\* file parsed.
CurrentParsed ==
    /\ jsonFile # NoFile
    /\ Parseable(jsonFile.file)
    /\ reads[jsonFile.file] = 0

\* C17: a run starts, and 'complete' is reached, only while the file in the
\* transcript slot has been parsed successfully: never while its parse has
\* failed or has not finished.
C17_ValidTranscriptOnly ==
    [][/\ RunStarts => CurrentParsed
       /\ processingStep' = "complete" /\ processingStep # "complete" => CurrentParsed]_vars

\* C18: whenever processingStep is 'complete' there is a final audio URL;
\* and finalAudioUrl is written only by the last step of a run, the step in
\* which that run sets 'complete'.
C18_DownloadAvailable ==
    /\ [](processingStep = "complete" => finalAudioUrl # NoUrl)
    /\ [][finalAudioUrl' # finalAudioUrl =>
             /\ \E i \in 1..Len(runs) : runs[i].stage = "combining" /\ RunEnds(i)
             /\ processingStep' = "complete"
             /\ finalAudioUrl' # NoUrl]_vars

\* A first run has completed, and no second one has set a stage since: the
\* step is 'complete' with the final audio of that run.
C18_Witness ==
    /\ processingStep = "complete"
    /\ finalAudioUrl = createObjectURL("intro.mp3")
    /\ runs = <<>>
    /\ NoReads

\* C19: a step that changes the intro or outro slot starts no read and
\* leaves transcript, processingStep and finalAudioUrl as they were; a step
\* that selects a transcript file starts one read, of that file, and changes
\* nothing else but the transcript slot; transcript changes only when a read
\* completes, to the document parsed from the file read.
C19_SelectionFrame ==
    [][/\ introFile' # introFile \/ outroFile' # outroFile =>
            /\ reads' = reads
            /\ transcript' = transcript
            /\ processingStep' = processingStep
            /\ finalAudioUrl' = finalAudioUrl
            /\ runs' = runs
       /\ jsonFile' # jsonFile \/ (\E f \in JsonFiles : reads'[f] > reads[f]) =>
            /\ reads' = [reads EXCEPT ![jsonFile'.file] = @ + 1]
            /\ transcript' = transcript
            /\ processingStep' = processingStep
            /\ finalAudioUrl' = finalAudioUrl
            /\ runs' = runs
            /\ introFile' = introFile
            /\ outroFile' = outroFile
       /\ transcript' # transcript =>
            \E f \in JsonFiles :
                /\ ReadCompletes(f)
                /\ Parseable(f)
                /\ transcript' = JSONParse(FileText(f)).value]_vars

\* After a completed run the user has selected another intro file and
\* another transcript file, whose read is still in flight: the step and the
\* transcript are those from before the selections.
C19_Witness ==
    /\ processingStep = "complete"
    /\ introFile.file = "other.mp3"
    /\ jsonFile.file = "segments.json"
    /\ reads["segments.json"] = 1
    /\ transcript = JSONParse(FileText("text.json")).value

====
